---- MODULE Spec2Model ----
(***************************************************************************)
(* The five request handlers of src/main.rs (create_user, get_user,        *)
(* get_all_user, update_user with update_user_in_db, delete_user) running  *)
(* concurrently against one "users" collection.  Every store call          *)
(* (insert_one, find_one, find, update_one, delete_one) and every read of  *)
(* the cursor that goes back to the store (getMore) is an await point and  *)
(* one atomic step; the code between two store calls is local to the       *)
(* request and belongs to the step of the store call before it.  Every     *)
(* store call may fail (Err); the Err of a write tells nothing of whether   *)
(* the store applied the write.                                            *)
(***************************************************************************)
EXTENDS Integers, Sequences, FiniteSets, TLC

\* ---------------------------------------------------------------- bounds
\* Identifiers ObjectId::new() hands out before the model stops creating.
MaxCreates == 1

\* Two request slots: at most two handlers are in flight at a time, and a slot
\* takes a new request once it has answered.
Procs == {1, 2}
Names == {"Ann", "Bob"}
Emails == {"ann@x.com"}

\* ------------------------------------------------------- HTTP statuses
StatusOk == 200
StatusBadRequest == 400
StatusNotFound == 404
StatusInternalServerError == 500

\* --------------------------------------------------------- Option<T>
None == <<"None">>
Some(v) == <<"Some", v>>
IsSome(o) == o[1] = "Some"
Unwrap(o) == o[2]

\* Option::or, as used in the merge of update_user.
\* (OrElseExisting: the merge with its operands the wrong way round.)
OrElseExisting(a, b) == IF IsSome(b) THEN b ELSE a
Or(a, b) == IF IsSome(a) THEN a ELSE b

\* ---------------------------------------------------------- ObjectId
\* An ObjectId is 12 bytes: 4 of timestamp, 5 unique to the process, 3 of a
\* counter (big-endian) that ObjectId::new() increments.
OidTimestamp == <<101, 63, 170, 16>>
OidProcessUnique == <<171, 205, 239, 1, 35>>
CounterWidth == 16777216

ObjectIdNew(counter) ==
    OidTimestamp \o OidProcessUnique \o
    << (counter \div 65536) % 256, (counter \div 256) % 256, counter % 256 >>
\* An identifier that an earlier run of the server generated: an earlier
\* second, another process.
EarlierOid == << 101, 63, 170, 15 >> \o << 18, 52, 86, 120, 154 >> \o << 0, 0, 7 >>

HexChars == << "0", "1", "2", "3", "4", "5", "6", "7",
               "8", "9", "a", "b", "c", "d", "e", "f" >>
UpperHexChars == << "0", "1", "2", "3", "4", "5", "6", "7",
                    "8", "9", "A", "B", "C", "D", "E", "F" >>

\* The value of one hex digit (hex::decode takes either case), -1 for any
\* other character.
HexDigits == {HexChars[i] : i \in 1..16} \cup {UpperHexChars[i] : i \in 1..16}
HexTable == [c \in HexDigits |->
                IF \E i \in 1..16 : HexChars[i] = c
                THEN (CHOOSE i \in 1..16 : HexChars[i] = c) - 1
                ELSE (CHOOSE i \in 1..16 : UpperHexChars[i] = c) - 1]
HexVal(c) == IF c \in HexDigits THEN HexTable[c] ELSE -1

\* ObjectId::to_hex: 24 lower-case hex characters.
ToHex(oid) ==
    [i \in 1..24 |->
        IF i % 2 = 1 THEN HexChars[(oid[(i + 1) \div 2] \div 16) + 1]
                     ELSE HexChars[(oid[i \div 2] % 16) + 1]]

\* ObjectId::parse_str: Ok(id) for exactly 24 hex characters, Err otherwise.
\* (ParseStrAnyChars: a parse that checks the length alone.)
ParseStrAnyChars(s) ==
    IF Len(s) = 24
    THEN [ok |-> TRUE,
          id |-> [i \in 1..12 |-> (16 * HexVal(s[2 * i - 1]) + HexVal(s[2 * i])) % 256]]
    ELSE [ok |-> FALSE, id |-> <<>>]
ParseStr(s) ==
    IF Len(s) = 24 /\ \A i \in 1..24 : HexVal(s[i]) >= 0
    THEN [ok |-> TRUE,
          id |-> [i \in 1..12 |-> 16 * HexVal(s[2 * i - 1]) + HexVal(s[2 * i])]]
    ELSE [ok |-> FALSE, id |-> <<>>]

\* ------------------------------------------------------------- User
\* struct User { id: Option<ObjectId>, name: Option<String>, email: Option<String> }
MkUser(id, name, email) == [id |-> id, name |-> name, email |-> email]
NoUser == MkUser(None, None, None)

\* A field of a stored document or of a JSON object: not there, null, or a value.
Missing == <<"missing">>
BNull == <<"null">>
BStr(v) == <<"string", v>>
BOid(oid) == <<"oid", oid>>
JOid(oid) == <<"$oid", ToHex(oid)>>

\* #[serde(skip_serializing_if = "Option::is_none")]
\* (SkipIfNoneAsNull: the attribute left off, None serialized as null.)
SkipIfNoneAsNull(o) == IF IsSome(o) THEN BStr(Unwrap(o)) ELSE BNull
SkipIfNone(o) == IF IsSome(o) THEN BStr(Unwrap(o)) ELSE Missing

\* Serialize for User into the document insert_one stores.
ToBsonDoc(u) ==
    [_id |-> IF IsSome(u.id) THEN BOid(Unwrap(u.id)) ELSE Missing,
     name |-> SkipIfNone(u.name),
     email |-> SkipIfNone(u.email)]

\* Serialize for User into the JSON of a response body.
ToJson(u) ==
    [_id |-> IF IsSome(u.id) THEN JOid(Unwrap(u.id)) ELSE Missing,
     name |-> SkipIfNone(u.name),
     email |-> SkipIfNone(u.email)]

\* Deserialize of an Option<String> field: a missing or null field is None.
OptionOfBson(b) == IF b[1] = "string" THEN Some(b[2]) ELSE None

\* Deserialize for User from a stored document.
FromBsonDoc(d) ==
    [id |-> IF d._id[1] = "oid" THEN Some(d._id[2]) ELSE None,
     name |-> OptionOfBson(d.name),
     email |-> OptionOfBson(d.email)]

\* doc! { "name": option }: Option<String> into Bson, None becomes null.
BsonOfOption(o) == IF IsSome(o) THEN BStr(Unwrap(o)) ELSE BNull

\* ------------------------------------------------------- the collection
\* The collection is the sequence of its documents in insertion order.
MatchIdx(coll, oid) == {i \in 1..Len(coll) : coll[i]._id = BOid(oid)}
FirstMatch(coll, oid) == CHOOSE i \in MatchIdx(coll, oid) :
                            \A j \in MatchIdx(coll, oid) : i <= j

\* find_one(doc! {"_id": oid}): <<>> for Ok(None), <<user>> for Ok(Some(user)).
FindOne(coll, oid) ==
    IF MatchIdx(coll, oid) = {} THEN <<>>
    ELSE << FromBsonDoc(coll[FirstMatch(coll, oid)]) >>

\* insert_one: a duplicate _id is a write error.
InsertOne(coll, d) ==
    IF \E i \in 1..Len(coll) : coll[i]._id = d._id
    THEN [ok |-> FALSE, coll |-> coll]
    ELSE [ok |-> TRUE, coll |-> Append(coll, d)]

\* update_one(filter, {"$set": {name, email}}, upsert(false)).
SetFields(d, name, email) == [d EXCEPT !.name = name, !.email = email]
UpdateOne(coll, oid, name, email) ==
    IF MatchIdx(coll, oid) = {}
    THEN [coll |-> coll, matched_count |-> 0, modified_count |-> 0]
    ELSE LET i == FirstMatch(coll, oid)
             d == SetFields(coll[i], name, email)
         IN [coll |-> [coll EXCEPT ![i] = d],
             matched_count |-> 1,
             modified_count |-> IF d = coll[i] THEN 0 ELSE 1]

\* delete_one(filter).
\* (RemoveNext: a removal off by one.  DeleteOneKeeps: a delete that counts
\* the match and removes nothing.)
RemoveNext(coll, i) == SubSeq(coll, 1, i) \o SubSeq(coll, i + 2, Len(coll))
Remove(coll, i) == SubSeq(coll, 1, i - 1) \o SubSeq(coll, i + 1, Len(coll))
DeleteOneKeeps(coll, oid) ==
    [coll |-> coll, deleted_count |-> IF MatchIdx(coll, oid) = {} THEN 0 ELSE 1]
DeleteOne(coll, oid) ==
    IF MatchIdx(coll, oid) = {}
    THEN [coll |-> coll, deleted_count |-> 0]
    ELSE [coll |-> Remove(coll, FirstMatch(coll, oid)), deleted_count |-> 1]

\* The documents a read of the store yields to the cursor loop, deserialized.
\* (FindAllButLast: a loop that stops one document early.)
FindAllButLast(coll) == [i \in 1..(Len(coll) - 1) |-> FromBsonDoc(coll[i])]
FindAll(coll) == [i \in 1..Len(coll) |-> FromBsonDoc(coll[i])]

\* The cursor of find(doc! {}).  The store scans the collection in the
\* order of insertion and inserts at the end, so what lies ahead of a cursor
\* are the documents it has not handed out: the loop has pushed to its
\* vector us every document the cursor has passed.
HandedOut(us) == {Unwrap(us[i].id) : i \in 1..Len(us)}
AfterCursor(coll, us) ==
    LET Ahead(d) == d._id[2] \notin HandedOut(us)
    IN SelectSeq(coll, Ahead)
\* What one read (find, or the getMore of a cursor.next() that has used up
\* its batch) can answer when found is what lies ahead of the cursor: a
\* batch, and whether the cursor stays open.  The store cuts the batch
\* where it chooses (at a count of documents or at a size in bytes), so the
\* batch is any non-empty prefix; a batch that stops short leaves the cursor
\* open, a batch that takes the last document leaves it open or exhausted,
\* and with nothing ahead the cursor is exhausted.  The collections here are
\* small and stand for any size: a cut after the first document stands for
\* a cut after the first batch.
Batches(found) ==
    IF found = << >>
    THEN {[batch |-> << >>, open |-> FALSE]}
    ELSE {[batch |-> SubSeq(found, 1, c[1]), open |-> c[2]] :
             c \in {x \in (1..Len(found)) \X BOOLEAN : x[1] < Len(found) => x[2]}}

\* --------------------------------------------------------- requests
OptNames == {None} \cup {Some(n) : n \in Names}
OptEmails == {None} \cup {Some(e) : e \in Emails}
\* The JSON body of a request; a client-sent _id is read by no handler.
Bodies == [name : OptNames, email : OptEmails]
NoBody == [name |-> None, email |-> None]

\* Path segments (the route takes no empty one): the hex of every identifier
\* create can generate, of one that this run never generates, and strings
\* that are not 24 hex characters.
WellFormedPaths ==
    {ToHex(ObjectIdNew(c)) : c \in 0..(MaxCreates - 1)} \cup {ToHex(EarlierOid)}
BadCharset == [i \in 1..24 |-> IF i = 24 THEN "g" ELSE "0"]
BadLength == SubSeq(ToHex(ObjectIdNew(0)), 1, 23)
MalformedPaths == {BadCharset, BadLength}
Paths == WellFormedPaths \cup MalformedPaths

PathOps == {"get", "update", "delete"}
Requests ==
    [op : {"create"}, path : {<< >>}, body : Bodies]
    \cup [op : {"get_all"}, path : {<< >>}, body : {NoBody}]
    \cup [op : {"get", "delete"}, path : Paths, body : {NoBody}]
    \cup [op : {"update"}, path : Paths, body : Bodies]
NoReq == [op |-> "none", path |-> << >>, body |-> NoBody]

\* A response: the status, the JSON values of the body (none for an empty
\* body) and whether the body is an array.  fault records that a store call
\* of the request returned Err.
Response(status, body, array, fault) ==
    [status |-> status, body |-> body, array |-> array, fault |-> fault]
NoResp == Response(0, << >>, FALSE, FALSE)
Finish(status) == Response(status, << >>, FALSE, FALSE)
FinishFault(status) == Response(status, << >>, FALSE, TRUE)
JsonUser(status, u) == Response(status, << ToJson(u) >>, FALSE, FALSE)
JsonUsers(status, us) ==
    Response(status, [i \in 1..Len(us) |-> ToJson(us[i])], TRUE, FALSE)

NoLocal == [user_id |-> << >>, user |-> NoUser]

\* What get_all_user holds across the awaits of its loop: the vector users,
\* which also tells where the cursor stands.  first and same are history:
\* the collection as find saw it, and whether every read since has seen it
\* the same.
Cursor(us, first, same) == [users |-> us, first |-> first, same |-> same]
NoCursor == Cursor(<< >>, << >>, TRUE)

VARIABLES
    users,       \* the "users" collection of the store
    oidCounter,  \* the counter of ObjectId::new()
    pc,          \* per request slot: where its handler stands
    req,         \* per request slot: the request being handled
    local,       \* per request slot: user_id and the User held across an await
    cursor,      \* per request slot: the cursor and the vector of get_all_user
    resp,        \* per request slot: the response the handler returned
    hist         \* history: per generated identifier, what happened to it

vars == << users, oidCounter, pc, req, local, cursor, resp, hist >>

\* hist[i] is the record of the i-th generated identifier: inserted tells
\* that the store has inserted it; pristine holds the body sent to create
\* once create has answered 200 and while no update_one or delete_one has
\* run on the identifier since; delOk counts the deletes of it that answered
\* 200; delErr tells that a delete_one removed it and returned Err.
HistEntry(oid) ==
    [id |-> oid, inserted |-> FALSE, pristine |-> << >>, delOk |-> 0,
     delErr |-> FALSE]
Inserted(h, oid, pristine) ==
    [i \in 1..Len(h) |->
        IF h[i].id = oid
        THEN [h[i] EXCEPT !.inserted = TRUE, !.pristine = pristine]
        ELSE h[i]]
Touch(h, oid) ==
    [i \in 1..Len(h) |->
        IF h[i].id = oid THEN [h[i] EXCEPT !.pristine = << >>] ELSE h[i]]
CountDelete(h, oid) ==
    [i \in 1..Len(h) |->
        IF h[i].id = oid THEN [h[i] EXCEPT !.delOk = @ + 1] ELSE h[i]]
DeleteFailed(h, oid) ==
    [i \in 1..Len(h) |->
        IF h[i].id = oid THEN [h[i] EXCEPT !.delErr = TRUE] ELSE h[i]]

Init ==
    /\ users = << >>
    /\ oidCounter = 0
    /\ pc = [p \in Procs |-> "idle"]
    /\ req = [p \in Procs |-> NoReq]
    /\ local = [p \in Procs |-> NoLocal]
    /\ cursor = [p \in Procs |-> NoCursor]
    /\ resp = [p \in Procs |-> NoResp]
    /\ hist = << >>

\* The server starts on a collection that an earlier run has left a record
\* in: the store outlives the server.
StoredEarlier == ToBsonDoc(MkUser(Some(EarlierOid), Some("Ann"), None))
InitStored ==
    /\ users = << StoredEarlier >>
    /\ oidCounter = 0
    /\ pc = [p \in Procs |-> "idle"]
    /\ req = [p \in Procs |-> NoReq]
    /\ local = [p \in Procs |-> NoLocal]
    /\ cursor = [p \in Procs |-> NoCursor]
    /\ resp = [p \in Procs |-> NoResp]
    /\ hist = << >>

\* The server hands a request to a handler.
PendingCreates == Cardinality({q \in Procs : pc[q] = "recv" /\ req[q].op = "create"})
Receive(p) ==
    /\ pc[p] = "idle"
    /\ \E r \in Requests :
          /\ r.op = "create" => oidCounter + PendingCreates < MaxCreates
          /\ req' = [req EXCEPT ![p] = r]
    /\ pc' = [pc EXCEPT ![p] = "recv"]
    /\ UNCHANGED << users, oidCounter, local, cursor, resp, hist >>

\* The handler's return: the response.  The handler has consumed the body;
\* the slot keeps the method and the path until the response is sent.
Return(p, r) ==
    /\ pc' = [pc EXCEPT ![p] = "done"]
    /\ resp' = [resp EXCEPT ![p] = r]
    /\ local' = [local EXCEPT ![p] = NoLocal]
    /\ cursor' = [cursor EXCEPT ![p] = NoCursor]
    /\ req' = [req EXCEPT ![p].body = NoBody]

\* create_user up to its insert_one: ObjectId::new() and the new User.
CreateUser(p) ==
    /\ pc[p] = "recv" /\ req[p].op = "create"
    /\ oidCounter < MaxCreates
    /\ LET user_id == ObjectIdNew(oidCounter)
           new_user == MkUser(Some(user_id), req[p].body.name, req[p].body.email)
       IN /\ oidCounter' = (oidCounter + 1) % CounterWidth
          /\ local' = [local EXCEPT ![p] = [user_id |-> user_id, user |-> new_user]]
          /\ hist' = Append(hist, HistEntry(user_id))
          /\ pc' = [pc EXCEPT ![p] = "insert_one"]
          /\ UNCHANGED << users, req, cursor, resp >>

\* create_user from its insert_one on.
CreateUserInsertOne(p) ==
    /\ pc[p] = "insert_one"
    /\ UNCHANGED oidCounter
    /\ LET new_user == local[p].user
           ins == InsertOne(users, ToBsonDoc(new_user))
       IN \/ /\ ins.ok
             /\ users' = ins.coll
             /\ hist' = Inserted(hist, local[p].user_id, << req[p].body >>)
             /\ Return(p, JsonUser(StatusOk, new_user))
          \/ /\ users' \in {users, ins.coll}
             /\ hist' = IF users' = users THEN hist
                        ELSE Inserted(hist, local[p].user_id, << >>)
             /\ Return(p, FinishFault(StatusInternalServerError))

\* get_user
GetUser(p) ==
    /\ pc[p] = "recv" /\ req[p].op = "get"
    /\ UNCHANGED << users, oidCounter, hist >>
    /\ LET parsed == ParseStr(req[p].path)
       IN IF ~parsed.ok
          THEN Return(p, Finish(StatusBadRequest))
          ELSE LET result == FindOne(users, parsed.id)
               IN \/ /\ result # << >>
                     /\ Return(p, JsonUser(StatusOk, result[1]))
                  \/ /\ result = << >>
                     /\ Return(p, Finish(StatusNotFound))
                  \/ Return(p, FinishFault(StatusInternalServerError))

\* The end of get_all_user once cursor.next() has answered None.
GetAllReturn(p, us) ==
    IF us = << >>
    THEN Return(p, Finish(StatusNotFound))
    ELSE Return(p, JsonUsers(StatusOk, us))

\* get_all_user up to the first read that goes back to the store: find, and
\* the turns of the loop that the batch of find serves.  An Err of find meets
\* expect() and panics: the handler returns nothing.
GetAllUser(p) ==
    /\ pc[p] = "recv" /\ req[p].op = "get_all"
    /\ UNCHANGED << users, oidCounter, hist >>
    /\ \/ /\ pc' = [pc EXCEPT ![p] = "panicked"]
          /\ resp' = [resp EXCEPT ![p] = [NoResp EXCEPT !.fault = TRUE]]
          /\ UNCHANGED << req, local, cursor >>
       \/ \E r \in Batches(FindAll(AfterCursor(users, << >>))) :
             IF r.open
             THEN /\ pc' = [pc EXCEPT ![p] = "get_more"]
                  /\ cursor' = [cursor EXCEPT ![p] = Cursor(r.batch, users, TRUE)]
                  /\ UNCHANGED << req, local, resp >>
             ELSE GetAllReturn(p, r.batch)

\* get_all_user at a cursor.next() that has used up its batch and asks the
\* store for more, and the turns of the loop that the new batch serves.  An
\* Err here is the Err of the loop: 500.
GetAllUserGetMore(p) ==
    /\ pc[p] = "get_more"
    /\ UNCHANGED << users, oidCounter, hist >>
    /\ \/ Return(p, FinishFault(StatusInternalServerError))
       \/ \E r \in Batches(FindAll(AfterCursor(users, cursor[p].users))) :
             LET us == cursor[p].users \o r.batch
             IN IF r.open
                THEN /\ cursor' = [cursor EXCEPT ![p] =
                           Cursor(us, cursor[p].first,
                                  cursor[p].same /\ users = cursor[p].first)]
                     /\ UNCHANGED << pc, req, local, resp >>
                ELSE GetAllReturn(p, us)

\* update_user up to its find_one: parse, fetch, merge.
UpdateUser(p) ==
    /\ pc[p] = "recv" /\ req[p].op = "update"
    /\ UNCHANGED << users, oidCounter, hist >>
    /\ LET parsed == ParseStr(req[p].path)
       IN IF ~parsed.ok
          THEN Return(p, Finish(StatusBadRequest))
          ELSE LET found == FindOne(users, parsed.id)
               IN \/ /\ found # << >>
                     /\ LET existing_user == found[1]
                            updated_user ==
                                MkUser(Some(parsed.id),
                                       Or(req[p].body.name, existing_user.name),
                                       Or(req[p].body.email, existing_user.email))
                        IN /\ local' = [local EXCEPT ![p] =
                                          [user_id |-> parsed.id, user |-> updated_user]]
                           /\ pc' = [pc EXCEPT ![p] = "update_user_in_db"]
                           /\ UNCHANGED << req, cursor, resp >>
                  \/ /\ found = << >>
                     /\ Return(p, Finish(StatusNotFound))
                  \/ Return(p, FinishFault(StatusInternalServerError))

\* update_user_in_db and the response of update_user.
Modified(result) == result.modified_count > 0
UpdateUserInDb(p) ==
    /\ pc[p] = "update_user_in_db"
    /\ UNCHANGED oidCounter
    /\ LET updated_user == local[p].user
           result == UpdateOne(users, local[p].user_id,
                               BsonOfOption(updated_user.name),
                               BsonOfOption(updated_user.email))
       IN \/ /\ users' = result.coll
             /\ hist' = Touch(hist, local[p].user_id)
             /\ IF Modified(result)
                THEN Return(p, JsonUser(StatusOk, updated_user))
                ELSE Return(p, Finish(StatusInternalServerError))
          \/ /\ users' \in {users, result.coll}
             /\ hist' = Touch(hist, local[p].user_id)
             /\ Return(p, FinishFault(StatusInternalServerError))

\* delete_user up to its find_one: parse, fetch.
DeleteUser(p) ==
    /\ pc[p] = "recv" /\ req[p].op = "delete"
    /\ UNCHANGED << users, oidCounter, hist >>
    /\ LET parsed == ParseStr(req[p].path)
       IN IF ~parsed.ok
          THEN Return(p, Finish(StatusBadRequest))
          ELSE LET found == FindOne(users, parsed.id)
               IN \/ /\ found # << >>
                     /\ local' = [local EXCEPT ![p] =
                                    [user_id |-> parsed.id, user |-> found[1]]]
                     /\ pc' = [pc EXCEPT ![p] = "delete_one"]
                     /\ UNCHANGED << req, cursor, resp >>
                  \/ /\ found = << >>
                     /\ Return(p, Finish(StatusNotFound))
                  \/ Return(p, FinishFault(StatusInternalServerError))

\* delete_user from its delete_one on.
DeleteUserDeleteOne(p) ==
    /\ pc[p] = "delete_one"
    /\ UNCHANGED oidCounter
    /\ LET delete_result == DeleteOne(users, local[p].user_id)
       IN \/ /\ users' = delete_result.coll
             /\ IF delete_result.deleted_count = 1
                THEN /\ hist' = CountDelete(Touch(hist, local[p].user_id),
                                            local[p].user_id)
                     /\ Return(p, JsonUser(StatusOk, local[p].user))
                ELSE /\ hist' = Touch(hist, local[p].user_id)
                     /\ Return(p, Finish(StatusNotFound))
          \/ /\ users' \in {users, delete_result.coll}
             /\ hist' = IF users' = users THEN Touch(hist, local[p].user_id)
                        ELSE DeleteFailed(Touch(hist, local[p].user_id),
                                          local[p].user_id)
             /\ Return(p, FinishFault(StatusInternalServerError))

\* The server sends the response; the slot takes the next request.
Respond(p) ==
    /\ pc[p] = "done"
    /\ pc' = [pc EXCEPT ![p] = "idle"]
    /\ resp' = [resp EXCEPT ![p] = NoResp]
    /\ req' = [req EXCEPT ![p] = NoReq]
    /\ UNCHANGED << users, oidCounter, local, cursor, hist >>

\* After a panic of a handler no response is written; the server goes on
\* serving.
AfterPanic(p) ==
    /\ pc[p] = "panicked"
    /\ pc' = [pc EXCEPT ![p] = "idle"]
    /\ resp' = [resp EXCEPT ![p] = NoResp]
    /\ req' = [req EXCEPT ![p] = NoReq]
    /\ UNCHANGED << users, oidCounter, local, cursor, hist >>

Next ==
    \E p \in Procs :
        \/ Receive(p)
        \/ CreateUser(p)
        \/ CreateUserInsertOne(p)
        \/ GetUser(p)
        \/ GetAllUser(p)
        \/ GetAllUserGetMore(p)
        \/ UpdateUser(p)
        \/ UpdateUserInDb(p)
        \/ DeleteUser(p)
        \/ DeleteUserDeleteOne(p)
        \/ Respond(p)
        \/ AfterPanic(p)

Spec == Init /\ [][Next]_vars
SpecStored == InitStored /\ [][Next]_vars

\* ------------------------------------------------------------ claims
\* What the claims say of a request: which slot moved, on which identifier.
IsObjectIdString(s) == Len(s) = 24 /\ \A i \in 1..24 : s[i] \in HexDigits
Starts(p, ops) == pc[p] = "recv" /\ req[p].op \in ops /\ pc'[p] # "recv"
Answers(p) == pc[p] # "done" /\ pc'[p] = "done"
Stored(coll, oid) == \E i \in 1..Len(coll) : coll[i]._id = BOid(oid)
StoredDoc(coll, oid) == coll[CHOOSE i \in 1..Len(coll) : coll[i]._id = BOid(oid)]
\* A field of a JSON body for an optional value: left out when absent.
JsonField(o) == IF o = None THEN Missing ELSE BStr(o[2])
\* The optional value a stored field reads back as.
ReadBack(b) == IF b = Missing \/ b = BNull THEN None ELSE Some(b[2])
EmptyBody(status) ==
    [status |-> status, body |-> << >>, array |-> FALSE, fault |-> FALSE]

\* C1: get-one, update and delete answer a path that is not an ObjectId
\* string with 400 and an empty body, in their first step, with no store call
\* (none that could fail) and the collection unchanged.
C1_Step(p) ==
    (Starts(p, PathOps) /\ ~IsObjectIdString(req[p].path))
        => /\ pc'[p] = "done"
           /\ resp'[p] = EmptyBody(StatusBadRequest)
           /\ users' = users
\* C1: a malformed path identifier is answered 400 with no store call.
C1_MalformedIdIsBadRequest == [][\A p \in Procs : C1_Step(p)]_vars

C1_Witness ==
    \E p \in Procs :
        /\ pc[p] = "done" /\ req[p].op \in PathOps
        /\ req[p].path = BadCharset
        /\ resp[p].status = StatusBadRequest

\* C2: a get-one of an identifier whose create succeeded, with no update_one
\* or delete_one on it since and no store failure, answers 200 with that
\* identifier and exactly the name and email sent to create.
C2_Step(p) ==
    \A i \in 1..Len(hist) :
        ( /\ Starts(p, {"get"})
          /\ hist[i].pristine # << >>
          /\ req[p].path = ToHex(hist[i].id)
          /\ ~resp'[p].fault )
        => /\ pc'[p] = "done"
           /\ resp'[p].status = StatusOk
           /\ ~resp'[p].array
           /\ resp'[p].body =
                << [_id |-> << "$oid", req[p].path >>,
                    name |-> JsonField(hist[i].pristine[1].name),
                    email |-> JsonField(hist[i].pristine[1].email)] >>
\* C2: get-one after create returns what was sent to create.
C2_CreateThenGetRoundTrip == [][\A p \in Procs : C2_Step(p)]_vars

C2_Witness ==
    \E p \in Procs : \E i \in 1..Len(hist) :
        /\ pc[p] = "done" /\ req[p].op = "get"
        /\ req[p].path = ToHex(hist[i].id)
        /\ hist[i].pristine # << >>
        /\ hist[i].pristine[1].name # None
        /\ hist[i].pristine[1].email = None
        /\ resp[p].status = StatusOk

\* C3: a delete that finds the record and whose delete_one succeeds answers
\* 200; once a delete of an identifier has answered 200, every get-one or
\* delete of it that starts afterwards answers 404 with an empty body, unless
\* its own store call fails.
C3_First(p) ==
    ( /\ pc[p] = "delete_one" /\ Answers(p)
      /\ Stored(users, local[p].user_id)
      /\ ~resp'[p].fault )
    => /\ resp'[p].status = StatusOk
       /\ ~Stored(users', local[p].user_id)
C3_Later(p) ==
    \A i \in 1..Len(hist) :
        ( /\ Starts(p, {"get", "delete"})
          /\ hist[i].delOk >= 1
          /\ req[p].path = ToHex(hist[i].id)
          /\ ~resp'[p].fault )
        => /\ pc'[p] = "done"
           /\ resp'[p] = EmptyBody(StatusNotFound)
\* C3: the first delete answers 200, every later delete or get-one 404.
C3_DeletedStaysDeleted ==
    [][\A p \in Procs : C3_First(p) /\ C3_Later(p)]_vars

C3_Witness ==
    \E p \in Procs : \E i \in 1..Len(hist) :
        /\ pc[p] = "done" /\ req[p].op = "delete"
        /\ req[p].path = ToHex(hist[i].id)
        /\ hist[i].delOk = 1
        /\ resp[p] = EmptyBody(StatusNotFound)

\* C4: the record an update builds at its fetch takes, for each of name and
\* email, the value of the request body when the body has the field and the
\* value read back from the stored document otherwise, under the identifier
\* of the path; an update that answers 200 returns exactly that record.
C4_Merge(p) ==
    ( /\ pc[p] = "recv" /\ req[p].op = "update"
      /\ pc'[p] = "update_user_in_db" )
    => /\ Stored(users, local'[p].user_id)
       /\ ToHex(local'[p].user_id) = req[p].path
       /\ LET d == StoredDoc(users, local'[p].user_id)
              b == req[p].body
          IN /\ local'[p].user.id = Some(local'[p].user_id)
             /\ local'[p].user.name =
                    (IF b.name # None THEN b.name ELSE ReadBack(d.name))
             /\ local'[p].user.email =
                    (IF b.email # None THEN b.email ELSE ReadBack(d.email))
C4_Returned(p) ==
    ( /\ pc[p] = "update_user_in_db" /\ Answers(p)
      /\ resp'[p].status = StatusOk )
    => /\ ~resp'[p].array
       /\ resp'[p].body =
            << [_id |-> << "$oid", req[p].path >>,
                name |-> JsonField(local[p].user.name),
                email |-> JsonField(local[p].user.email)] >>
\* C4: the partial-update law, at the fetch and at the answer.
C4_PartialUpdateLaw ==
    [][\A p \in Procs : C4_Merge(p) /\ C4_Returned(p)]_vars

\* An update of email alone has fetched a record with a name and kept it.
C4_Witness ==
    \E p \in Procs :
        /\ pc[p] = "update_user_in_db"
        /\ req[p].body.name = None
        /\ req[p].body.email = Some("ann@x.com")
        /\ local[p].user.name = Some("Ann")
        /\ local[p].user.email = Some("ann@x.com")

\* A get-all answers (no store call of it failed): relative to the
\* collection as its find saw it, 404 exactly when that collection is empty,
\* and otherwise 200 with an array that holds each stored record once.
JsonOfDoc(d) ==
    [_id |-> << "$oid", ToHex(d._id[2]) >>,
     name |-> JsonField(ReadBack(d.name)),
     email |-> JsonField(ReadBack(d.email))]
\* A step of a get-all: its find, or a getMore of its cursor.
GetAllStep(p) ==
    \/ Starts(p, {"get_all"})
    \/ pc[p] = "get_more" /\ (pc'[p] # "get_more" \/ cursor'[p] # cursor[p])
GetAllAnswers(p) == GetAllStep(p) /\ Answers(p) /\ ~resp'[p].fault
\* The collection as the find of the request saw it.
AtFind(p) == IF pc[p] = "recv" THEN users ELSE cursor[p].first
\* Every read of the request, this one included, saw that collection.
SameAtEveryRead(p) ==
    pc[p] = "recv" \/ (cursor[p].same /\ users = cursor[p].first)
HoldsEachOnce(body, coll) ==
    /\ Len(body) = Len(coll)
    /\ \A i \in 1..Len(coll) :
           Cardinality({j \in 1..Len(body) : body[j] = JsonOfDoc(coll[i])}) = 1
\* The answer that reads the collection as coll.
ReadsAs(r, coll) ==
    IF coll = << >>
    THEN r = EmptyBody(StatusNotFound)
    ELSE /\ r.status = StatusOk
         /\ r.array
         /\ HoldsEachOnce(r.body, coll)
C5_OriginalStep(p) ==
    /\ GetAllStep(p) => users' = users
    /\ GetAllAnswers(p) =>
         \/ ReadsAs(resp'[p], AtFind(p))
         \/ ReadsAs(resp'[p], users)
\* C5 as written: the answer is the collection of one moment, be it the
\* moment of the find or of the last read.
C5_Original == [][\A p \in Procs : C5_OriginalStep(p)]_vars

C5_AmendedStep(p) ==
    /\ GetAllStep(p) => users' = users
    /\ GetAllAnswers(p) =>
         /\ (AtFind(p) = << >>) <=> (resp'[p].status = StatusNotFound)
         /\ AtFind(p) = << >> => resp'[p] = EmptyBody(StatusNotFound)
         /\ AtFind(p) # << >> =>
              /\ resp'[p].status = StatusOk
              /\ resp'[p].array
              /\ resp'[p].body # << >>
              /\ \A i, j \in 1..Len(resp'[p].body) :
                     resp'[p].body[i]._id = resp'[p].body[j]._id => i = j
              /\ SameAtEveryRead(p) => ReadsAs(resp'[p], AtFind(p))
\* C5: get-all answers 404 exactly when its find saw an empty collection,
\* else 200 with a non-empty array of distinct records, which is every
\* record of the collection each once when every read of its cursor saw
\* the same collection.
C5_GetAll == [][\A p \in Procs : C5_AmendedStep(p)]_vars

\* A get-all has answered 200 with both records of the collection.
C5_Witness ==
    \E p \in Procs :
        /\ pc[p] = "done" /\ req[p].op = "get_all"
        /\ resp[p].status = StatusOk /\ resp[p].array
        /\ Len(resp[p].body) = 2
        /\ HoldsEachOnce(resp[p].body, users)

\* An update's write on a record that is still stored, with no store failure.
WritesExisting(p) ==
    /\ pc[p] = "update_user_in_db" /\ Answers(p)
    /\ Stored(users, local[p].user_id)
    /\ ~resp'[p].fault

\* C6 as stated: an update of an existing record answers 200 exactly when
\* the store modified a document and 500 otherwise, and an update whose
\* merged record has the name and email the stored record reads back as
\* answers 500 and leaves the stored record as it was.
C6_OriginalStep(p) ==
    WritesExisting(p)
    => LET d == StoredDoc(users, local[p].user_id)
       IN /\ (resp'[p].status = StatusOk) <=> (users' # users)
          /\ resp'[p].status \in {StatusOk, StatusInternalServerError}
          /\ ( /\ ReadBack(d.name) = local[p].user.name
               /\ ReadBack(d.email) = local[p].user.email )
             => /\ resp'[p] = EmptyBody(StatusInternalServerError)
                /\ users' = users
\* C6 as stated: an update answers 200 exactly when the store modified a
\* document, and every no-op merge is answered 500 and changes nothing.
C6_Original == [][\A p \in Procs : C6_OriginalStep(p)]_vars

\* C7 as stated: every request a store call of which failed ends with the
\* response 500 with an empty body; no handler ends without a response.
C7_EveryStoreFailureIs500 ==
    \A p \in Procs :
        /\ pc[p] # "panicked"
        /\ (pc[p] = "done" /\ resp[p].fault)
              => /\ resp[p].status = StatusInternalServerError
                 /\ resp[p].body = << >>

\* C8 as stated: an update whose write matches no document (the record was
\* deleted after the update's fetch) answers 404 with an empty body.
C8_Step(p) ==
    ( /\ pc[p] = "update_user_in_db" /\ Answers(p)
      /\ ~Stored(users, local[p].user_id)
      /\ ~resp'[p].fault )
    => resp'[p] = EmptyBody(StatusNotFound)
\* C8 as stated: an update whose write matches nothing is answered 404.
C8_UpdateOfVanishedIs404 == [][\A p \in Procs : C8_Step(p)]_vars

\* C9 as stated: the write of an update whose body omits a field leaves the
\* value that field of the stored record reads back as unchanged.
C9_Step(p) ==
    WritesExisting(p)
    => LET before == StoredDoc(users, local[p].user_id)
           after == StoredDoc(users', local[p].user_id)
       IN /\ Stored(users', local[p].user_id)
          /\ req[p].body.name = None
                => ReadBack(after.name) = ReadBack(before.name)
          /\ req[p].body.email = None
                => ReadBack(after.email) = ReadBack(before.email)
\* C9 as stated: no update write changes a field its body omits.
C9_OmittedFieldNeverChanged == [][\A p \in Procs : C9_Step(p)]_vars

\* C10: with no store failure (none of this delete, and no delete_one has
\* removed the record and returned Err), every delete of an identifier
\* answers 200 or 404, at most one of them 200, and once any of them has
\* answered the record is not stored and, if it ever was, exactly one has
\* answered 200.
NoDeleteFailed(oid) == \A i \in 1..Len(hist) : hist[i].id = oid => ~hist[i].delErr
DeleteTarget(p) ==
    IF pc[p] = "delete_one" THEN local[p].user_id ELSE ParseStr(req[p].path).id
C10_Step(p) ==
    ( /\ \/ pc[p] = "delete_one"
         \/ pc[p] = "recv" /\ req[p].op = "delete" /\ IsObjectIdString(req[p].path)
      /\ Answers(p)
      /\ ~resp'[p].fault
      /\ NoDeleteFailed(DeleteTarget(p)) )
    => /\ resp'[p].status \in {StatusOk, StatusNotFound}
       /\ ~Stored(users', DeleteTarget(p))
       /\ \A i \in 1..Len(hist) :
             (hist[i].id = DeleteTarget(p) /\ hist[i].inserted)
                => hist'[i].delOk = 1
C10_State ==
    \A i \in 1..Len(hist) :
        /\ hist[i].delOk <= 1
        /\ hist[i].delOk = 1 => ~Stored(users, hist[i].id)
\* C10: of the deletes of one identifier exactly one is answered 200.
C10_ConcurrentDeletes ==
    [][\A p \in Procs : C10_Step(p)]_vars /\ []C10_State

\* Two deletes fetched the same record; one has called delete_one and
\* answered 200, the other is about to call delete_one.
C10_Witness ==
    \E p, q \in Procs : \E i \in 1..Len(hist) :
        /\ p # q
        /\ pc[p] = "done" /\ req[p].op = "delete"
        /\ req[p].path = ToHex(hist[i].id)
        /\ resp[p].status = StatusOk
        /\ hist[i].delOk = 1
        /\ pc[q] = "delete_one" /\ local[q].user_id = hist[i].id

====
